---- MODULE Spec2Model ----
(***************************************************************************)
(* Model of the Quora-API service: the Express routers for questions and   *)
(* answers (routes/questions.mjs, routes/answers.mjs), their validation    *)
(* middlewares, and the PostgreSQL statements they run through the pg      *)
(* connection pool.                                                        *)
(*                                                                         *)
(* A request occupies one connection slot.  Express runs the middleware    *)
(* and the handler up to its `await connectionPool.query(...)` in one      *)
(* synchronous turn; the statement then runs in PostgreSQL (READ COMMITTED,*)
(* autocommit: its snapshot is taken when it starts, its writes become     *)
(* visible when it ends), and the handler resumes with the result.         *)
(***************************************************************************)
EXTENDS Integers, Sequences, FiniteSets, TLC

\* ------------------------------------------------------------------ bounds
MaxVotes == 2        \* vote rows ever inserted (both ledgers together)
MaxClock == 1        \* last instant of the server clock

\* Vote rows inserted in the runs whose clock advances.
TimedVotes == MaxVotes - 1

\* The ids the serials of questions.id and answers.id hand out in a run.
QuestionIds == {1}
AnswerIds == {1}

\* The ids of questions.id in the runs of the item routes.
ItemQuestionIds == {1, 2}

\* The longest content validateAnswer lets through.
MaxContentLength == 300

\* ------------------------------------------------------- JavaScript values
Undefined == [t |-> "undefined"]
Str(s) == [t |-> "string", s |-> s]
Num(n) == [t |-> "number", n |-> n]

\* JavaScript truthiness, as used by `!req.body.x`.
Truthy(v) ==
    CASE v.t = "undefined" -> FALSE
      [] v.t = "string" -> v.s # ""
      [] v.t = "number" -> v.n # 0

\* Decimal numerals PostgreSQL's integer input function is given here.
Numerals == <<"0", "1", "2", "3", "4">>

\* A text parameter converted to the integer type of its column:
\* [ok, val]; anything that is not a numeral is error 22P02.
PgInt(s) ==
    IF s = "-1" THEN [ok |-> TRUE, val |-> -1]
    ELSE IF \E i \in 1..Len(Numerals) : Numerals[i] = s
         THEN [ok |-> TRUE, val |-> (CHOOSE i \in 1..Len(Numerals) : Numerals[i] = s) - 1]
         ELSE [ok |-> FALSE, val |-> 0]

\* The text node-postgres sends for a query parameter: a string as it is,
\* a number in decimal, undefined as SQL null.
PgText(v) ==
    CASE v.t = "string" -> v.s
      [] v.t = "number" -> IF v.n = -1 THEN "-1" ELSE Numerals[v.n + 1]
      [] v.t = "undefined" -> "null"

\* ------------------------------------------------------------------ inputs
\* req.params.id of the routes with an :id segment.
PathIds == {"1", "abc"}

\* The path ids of the runs with two connections.
ConcPathIds == {"1"}

\* Values a client may put in a field of a vote body.
VoteValues == {Undefined, Str("1"), Str("-1"), Str("2"), Num(1)}

\* Bodies of the vote endpoints: the field the middleware reads, `vote`,
\* and a field `direction`.
VoteBodies ==
    {[vote |-> v, direction |-> Undefined] : v \in VoteValues}
    \cup {[vote |-> Undefined, direction |-> d] : d \in {Str("1"), Str("-1")}}

\* Bodies of POST /questions.
QuestionBodies ==
    {[title |-> ti, description |-> de, category |-> ca] :
        ti \in {Undefined, Str("a"), Str("b")},
        de \in {Str(""), Str("d")},
        ca \in {Str("c")}}

\* Bodies of POST /questions/:id/answers.
AnswerBodies == {[content |-> co] : co \in {Undefined, Str("a")}}

\* The bodies the vote middlewares let through.
ValidVoteBodies ==
    {[vote |-> v, direction |-> Undefined] : v \in {Str("1"), Str("-1")}}

VoteOps == {"q_up", "q_down", "a_up", "a_down"}

\* A text of n characters.
RECURSIVE Text(_)
Text(n) ==
    IF n = 0 THEN ""
    ELSE IF n % 2 = 0 THEN LET half == Text(n \div 2) IN half \o half
    ELSE "x" \o Text(n - 1)

\* The path ids of the runs of the item routes.
ItemPathIds == {"1", "2"}

\* Bodies of POST /questions and PUT /questions/:id in the runs of the item
\* routes: two complete ones, and each required field absent and empty.
ItemQuestionBodies ==
    {[title |-> Str(ti), description |-> Str("d"), category |-> Str("c")] :
        ti \in {"a", "b"}}
    \cup {[title |-> v, description |-> Str("d"), category |-> Str("c")] :
            v \in {Undefined, Str("")}}
    \cup {[title |-> Str("a"), description |-> v, category |-> Str("c")] :
            v \in {Undefined, Str("")}}
    \cup {[title |-> Str("a"), description |-> Str("d"), category |-> v] :
            v \in {Undefined, Str("")}}

\* Bodies of POST /questions/:id/answers in the runs of the item routes:
\* content absent, empty, short, and at and over the limit of validateAnswer.
ItemAnswerBodies ==
    {[content |-> co] :
        co \in {Undefined, Str(""), Str("a"),
                Str(Text(MaxContentLength)), Str(Text(MaxContentLength + 1))}}

\* req.query of GET /questions: parameter name -> value.
NoQuery == [k \in {} |-> ""]
Queries ==
    {NoQuery,
     "title" :> "a", "title" :> "b", "title" :> "",
     "category" :> "c", "category" :> "x",
     "title" :> "a" @@ "category" :> "c",
     "title" :> "b" @@ "category" :> "x",
     "bogus" :> "x",
     "title" :> "a" @@ "bogus" :> "x",
     "title" :> "a" @@ "category" :> "c" @@ "bogus" :> "x"}

\* An instant a client names in a body, other than the one of the clock.
Forged == MaxClock - 1

\* Fields a client may add to a body: the names of the columns the
\* handlers fill themselves.
ForgedFields ==
    [created_at |-> Forged, updated_at |-> Forged, id |-> Str("2"),
     question_id |-> Str("2"), answer_id |-> Str("2")]

\* The body with the added fields.
WithForged(body) ==
    [k \in DOMAIN body \cup DOMAIN ForgedFields |->
        IF k \in DOMAIN body THEN body[k] ELSE ForgedFields[k]]

\* ------------------------------------------------------------------- state
VARIABLES
    questions,       \* table questions: set of rows
    answers,         \* table answers: set of rows
    question_votes,  \* table question_votes: rows in insertion order
    answer_votes,    \* table answer_votes: rows in insertion order
    nextQuestionId,  \* serial of questions.id
    nextAnswerId,    \* serial of answers.id
    now,             \* the server clock read by `new Date()`
    conn,            \* per connection: the request in flight on it
    res              \* the response sent last

vars == <<questions, answers, question_votes, answer_votes,
          nextQuestionId, nextAnswerId, now, conn, res>>

Idle == [pc |-> "idle"]

\* The connections of the pool.
Clients == DOMAIN conn

\* The server starts on an empty database with the connections `cs` at
\* instant `t` of its clock.
Start(cs, t) ==
    /\ questions = {}
    /\ answers = {}
    /\ question_votes = <<>>
    /\ answer_votes = <<>>
    /\ nextQuestionId = 1
    /\ nextAnswerId = 1
    /\ now = t
    /\ conn = [c \in cs |-> Idle]
    /\ res = [op |-> "none", status |-> 0]

\* One connection; the clock stays within one instant during the run.
Init == Start({"c1"}, MaxClock)

\* Two connections; the clock stays within one instant during the run.
InitConc == Start({"c1", "c2"}, MaxClock)

\* One connection; the clock advances during the run.
InitClock == Start({"c1"}, 0)

\* A connection can take a new request when it carries none.
Free(c) == conn[c] = Idle

\* The two `new Date()` calls of a handler: the clock may advance between
\* them.
Dates == {d \in {0, 1} : now + d <= MaxClock}

Tick ==
    /\ now < MaxClock
    /\ now' = now + 1
    /\ UNCHANGED <<questions, answers, question_votes, answer_votes,
                   nextQuestionId, nextAnswerId, conn, res>>

\* ---------------------------------------------------- validation middleware
\* A middleware either calls next() or sends a 400 response.
NextCalled == [status |-> 0, message |-> ""]
BadRequest(m) == [status |-> 400, message |-> m]

\* Mutant: only absent fields are refused, empty ones pass.
validateQuestion_absent(body) ==
    IF body.title = Undefined THEN BadRequest("Missing or invalid request data.")
    ELSE IF body.description = Undefined THEN BadRequest("Missing or invalid request data.")
    ELSE IF body.category = Undefined THEN BadRequest("Missing or invalid request data.")
    ELSE NextCalled

validateQuestion(body) ==
    IF ~Truthy(body.title) THEN BadRequest("Missing or invalid request data.")
    ELSE IF ~Truthy(body.description) THEN BadRequest("Missing or invalid request data.")
    ELSE IF ~Truthy(body.category) THEN BadRequest("Missing or invalid request data.")
    ELSE NextCalled

\* Mutant: the middleware reads the field `direction`.
validateQuestionUpVote_direction(body) ==
    IF ~Truthy(body.direction) THEN BadRequest("Missing or invalid request data.")
    ELSE IF body.direction # Str("1") THEN BadRequest("Please enter only 1.")
    ELSE NextCalled

\* Mutant: the comparison with the literal "1" is missing.
validateQuestionUpVote_truthy(body) ==
    IF ~Truthy(body.vote) THEN BadRequest("Missing or invalid request data.")
    ELSE NextCalled

validateQuestionUpVote(body) ==
    IF ~Truthy(body.vote) THEN BadRequest("Missing or invalid request data.")
    ELSE IF body.vote # Str("1") THEN BadRequest("Please enter only 1.")
    ELSE NextCalled

\* Mutant: a missing vote falls through to next().
validateQuestionDownVote_nomissing(body) ==
    IF ~Truthy(body.vote) THEN NextCalled
    ELSE IF body.vote # Str("-1") THEN BadRequest("Please enter only -1.")
    ELSE NextCalled

validateQuestionDownVote(body) ==
    IF ~Truthy(body.vote) THEN BadRequest("Missing or invalid request data.")
    ELSE IF body.vote # Str("-1") THEN BadRequest("Please enter only -1.")
    ELSE NextCalled

\* Mutant: a query is refused only when none of its names is allowed.
validateQuery_all(query) ==
    IF DOMAIN query # {} /\ \A key \in DOMAIN query : key # "title" /\ key # "category"
    THEN BadRequest("Please enter a correct query.")
    ELSE NextCalled

\* `for (let key in req.query)`: the first name other than title and
\* category ends the request with 400.
validateQuery(query) ==
    IF \E key \in DOMAIN query : key # "title" /\ key # "category"
    THEN BadRequest("Please enter a correct query.")
    ELSE NextCalled

\* Mutant: the limit is compared with >=.
validateAnswer_ge(body) ==
    IF ~Truthy(body.content) THEN BadRequest("Missing or invalid request data.")
    ELSE IF Len(body.content.s) >= MaxContentLength THEN BadRequest("Textlength is over 300.")
    ELSE NextCalled

validateAnswer(body) ==
    IF ~Truthy(body.content) THEN BadRequest("Missing or invalid request data.")
    ELSE IF Len(body.content.s) > MaxContentLength THEN BadRequest("Textlength is over 300.")
    ELSE NextCalled

\* Mutant: the comparison with the literal "-1" is missing.
validateAnswerDownVote_truthy(body) ==
    IF ~Truthy(body.vote) THEN BadRequest("Missing or invalid request data.")
    ELSE NextCalled

validateAnswerDownVote(body) ==
    IF ~Truthy(body.vote) THEN BadRequest("Missing or invalid request data.")
    ELSE IF body.vote # Str("-1") THEN BadRequest("Please enter only -1.")
    ELSE NextCalled

\* Mutant: the upvote middleware compares with the downvote literal.
validateAnswerUpVote_minus(body) ==
    IF ~Truthy(body.vote) THEN BadRequest("Missing or invalid request data.")
    ELSE IF body.vote # Str("-1") THEN BadRequest("Please enter only 1.")
    ELSE NextCalled

validateAnswerUpVote(body) ==
    IF ~Truthy(body.vote) THEN BadRequest("Missing or invalid request data.")
    ELSE IF body.vote # Str("1") THEN BadRequest("Please enter only 1.")
    ELSE NextCalled

\* The middleware list of each vote route.
VoteMiddleware(op, body) ==
    CASE op = "q_up" -> validateQuestionUpVote(body)
      [] op = "q_down" -> validateQuestionDownVote(body)
      [] op = "a_up" -> validateAnswerUpVote(body)
      [] op = "a_down" -> validateAnswerDownVote(body)

OnQuestion(op) == op \in {"q_up", "q_down"}

\* ------------------------------------------------------ the vote statements
\* `with newField as (insert into question_votes ... returning *) select ...
\*  from questions inner join question_votes on ... inner join newField on
\*  ... where questions.id = $1 group by questions.id`.
\* PostgreSQL runs the insert of the WITH clause and the main select on one
\* snapshot: the scan of question_votes reads `visible`, the rows committed
\* when the statement started, and the inserted row reaches the select only
\* as newField (its RETURNING output).  The result is the set of group rows.
\* Mutant: the join with question_votes has no condition on the target.
QuestionVoteQuery_all(qs, visible, newField) ==
    LET joined == {p \in qs \X DOMAIN visible : p[1].id = newField.question_id}
        count(q, v) == Cardinality({p \in joined : p[1] = q /\ visible[p[2]].vote = v})
    IN  {[id |-> q.id, title |-> q.title, description |-> q.description,
          category |-> q.category, created_at |-> q.created_at,
          updated_at |-> q.updated_at,
          upvote |-> count(q, 1), downvote |-> count(q, -1)] :
            q \in {p[1] : p \in joined}}

QuestionVoteQuery(qs, visible, newField) ==
    LET joined == {p \in qs \X DOMAIN visible :
                      /\ p[1].id = visible[p[2]].question_id
                      /\ newField.question_id = visible[p[2]].question_id
                      /\ p[1].id = newField.question_id}
        count(q, v) == Cardinality({p \in joined : p[1] = q /\ visible[p[2]].vote = v})
    IN  {[id |-> q.id, title |-> q.title, description |-> q.description,
          category |-> q.category, created_at |-> q.created_at,
          updated_at |-> q.updated_at,
          upvote |-> count(q, 1), downvote |-> count(q, -1)] :
            q \in {p[1] : p \in joined}}

AnswerVoteQuery(as, visible, newField) ==
    LET joined == {p \in as \X DOMAIN visible :
                      /\ p[1].id = visible[p[2]].answer_id
                      /\ newField.answer_id = visible[p[2]].answer_id
                      /\ p[1].id = newField.answer_id}
        count(a, v) == Cardinality({p \in joined : p[1] = a /\ visible[p[2]].vote = v})
    IN  {[id |-> a.id, question_id |-> a.question_id, content |-> a.content,
          created_at |-> a.created_at, updated_at |-> a.updated_at,
          upvote |-> count(a, 1), downvote |-> count(a, -1)] :
            a \in {p[1] : p \in joined}}

\* Mutant: the fields of the body are spread last and win.
Spread_bodylast(body, fields) ==
    [k \in DOMAIN body \cup DOMAIN fields |->
        IF k \in DOMAIN body THEN body[k] ELSE fields[k]]

\* The object literal `{...req.body, created_at: new Date(), updated_at:
\* new Date()}`: the fields of the body, then the ones written after the
\* spread, which replace a field of the body with the same name.
Spread(body, fields) ==
    [k \in DOMAIN body \cup DOMAIN fields |->
        IF k \in DOMAIN fields THEN fields[k] ELSE body[k]]

\* ----------------------------------------------------------- vote handlers
InFlight == {c \in Clients : conn[c] # Idle}

VoteMessage(op, status) ==
    CASE status = 500 -> IF OnQuestion(op)
                         THEN "Server could not vote question because database connection."
                         ELSE "Server could not vote answer because database connection."
      [] status = 404 -> IF OnQuestion(op) THEN "Question not found." ELSE "Answer not found."
      [] status = 200 ->
            CASE op = "q_up" -> "Successfully upvoted the question."
              [] op = "q_down" -> "Successfully downvoted the question."
              [] op = "a_up" -> "Successfully upvoted the answer."
              [] op = "a_down" -> "Successfully downvoted the answer."

\* res.status(s).json({message}) of a request.
Reply(c, op, id, body, status, message) ==
    [op |-> op, id |-> id, body |-> body,
     status |-> status, message |-> message]

\* Mutant: the middleware sends its 400 and calls next() as well.
VoteReceive_both(c, op, id, body) ==
    /\ Free(c)
    /\ LET v == VoteMiddleware(op, body) IN
         /\ res' = IF v.status = 400 THEN Reply(c, op, id, body, 400, v.message) ELSE res
         /\ \E d \in Dates :
               /\ conn' = [conn EXCEPT ![c] =
                     [pc |-> "query", op |-> op, id |-> id, body |-> body,
                      created_at |-> now, updated_at |-> now + d]]
               /\ now' = now + d
    /\ UNCHANGED <<questions, answers, question_votes, answer_votes,
                   nextQuestionId, nextAnswerId>>

\* POST /questions/:id/upvote, /questions/:id/downvote, /answers/:id/upvote,
\* /answers/:id/downvote, up to the await: the middleware, then the vote
\* object {...req.body, created_at: new Date(), updated_at: new Date()} and
\* the statement sent with [id, vote, created_at, updated_at].
VoteReceive(c, op, id, body) ==
    /\ Free(c)
    /\ LET v == VoteMiddleware(op, body) IN
         IF v.status = 400
         THEN /\ res' = Reply(c, op, id, body, 400, v.message)
              /\ UNCHANGED <<now, conn>>
         ELSE /\ \E d \in Dates :
                    LET questionVote ==
                           Spread(body, [created_at |-> now, updated_at |-> now + d])
                    IN  /\ conn' = [conn EXCEPT ![c] =
                              [pc |-> "query", op |-> op, id |-> id, body |-> body,
                               created_at |-> questionVote.created_at,
                               updated_at |-> questionVote.updated_at]]
                        /\ now' = now + d
              /\ UNCHANGED res
    /\ UNCHANGED <<questions, answers, question_votes, answer_votes,
                   nextQuestionId, nextAnswerId>>

\* The response of the catch block of a vote handler.
Respond500(c) ==
    /\ res' = Reply(c, conn[c].op, conn[c].id, conn[c].body, 500,
                    VoteMessage(conn[c].op, 500))
    /\ conn' = [conn EXCEPT ![c] = Idle]

\* PostgreSQL starts the statement: it binds $1 and $2 to the integer
\* columns (a text that is no integer raises, and the handler's catch
\* answers 500) and evaluates the select on the snapshot of this instant.
VoteBegin(c) ==
    /\ conn[c].pc = "query"
    /\ LET r == conn[c]
           target == PgInt(r.id)
           vote == PgInt(PgText(r.body.vote))
       IN  IF ~target.ok \/ ~vote.ok
           THEN Respond500(c)
           ELSE /\ conn' = [conn EXCEPT ![c] =
                     [pc |-> "exec", op |-> r.op, id |-> r.id, body |-> r.body,
                      created_at |-> r.created_at, updated_at |-> r.updated_at,
                      rows |-> IF OnQuestion(r.op)
                               THEN QuestionVoteQuery(questions, question_votes,
                                                      [question_id |-> target.val])
                               ELSE AnswerVoteQuery(answers, answer_votes,
                                                    [answer_id |-> target.val])]]
                /\ UNCHANGED res
    /\ UNCHANGED <<questions, answers, question_votes, answer_votes,
                   nextQuestionId, nextAnswerId, now>>

\* The row `insert into question_votes (question_id,vote,created_at,
\* updated_at) values ($1,$2,$3,$4)` adds, and the one of answer_votes.
QuestionVoteRow(r) ==
    [id |-> Len(question_votes) + 1, question_id |-> PgInt(r.id).val,
     vote |-> PgInt(PgText(r.body.vote)).val,
     created_at |-> r.created_at, updated_at |-> r.updated_at]

AnswerVoteRow(r) ==
    [id |-> Len(answer_votes) + 1, answer_id |-> PgInt(r.id).val,
     vote |-> PgInt(PgText(r.body.vote)).val,
     created_at |-> r.created_at, updated_at |-> r.updated_at]

\* Mutant: the insert is skipped when its target is not stored.
VoteWrites_ifexists(r) ==
    /\ IF OnQuestion(r.op)
       THEN /\ question_votes' =
                  IF \E q \in questions : q.id = QuestionVoteRow(r).question_id
                  THEN Append(question_votes, QuestionVoteRow(r))
                  ELSE question_votes
            /\ UNCHANGED answer_votes
       ELSE /\ answer_votes' =
                  IF \E a \in answers : a.id = AnswerVoteRow(r).answer_id
                  THEN Append(answer_votes, AnswerVoteRow(r))
                  ELSE answer_votes
            /\ UNCHANGED question_votes
    /\ UNCHANGED <<questions, answers>>

\* Mutant: the insert skips a vote its target already has in that direction.
VoteWrites_dedup(r) ==
    /\ IF OnQuestion(r.op)
       THEN /\ question_votes' =
                  IF \E i \in DOMAIN question_votes :
                        /\ question_votes[i].question_id = QuestionVoteRow(r).question_id
                        /\ question_votes[i].vote = QuestionVoteRow(r).vote
                  THEN question_votes
                  ELSE Append(question_votes, QuestionVoteRow(r))
            /\ UNCHANGED answer_votes
       ELSE /\ answer_votes' =
                  IF \E i \in DOMAIN answer_votes :
                        /\ answer_votes[i].answer_id = AnswerVoteRow(r).answer_id
                        /\ answer_votes[i].vote = AnswerVoteRow(r).vote
                  THEN answer_votes
                  ELSE Append(answer_votes, AnswerVoteRow(r))
            /\ UNCHANGED question_votes
    /\ UNCHANGED <<questions, answers>>

\* Mutant: the statement also stamps the voted item's updated_at.
VoteWrites_touch(r) ==
    /\ IF OnQuestion(r.op)
       THEN /\ question_votes' = Append(question_votes, QuestionVoteRow(r))
            /\ questions' = {IF q.id = PgInt(r.id).val
                             THEN [q EXCEPT !.updated_at = r.updated_at] ELSE q :
                                q \in questions}
            /\ UNCHANGED <<answer_votes, answers>>
       ELSE /\ answer_votes' = Append(answer_votes, AnswerVoteRow(r))
            /\ answers' = {IF a.id = PgInt(r.id).val
                           THEN [a EXCEPT !.updated_at = r.updated_at] ELSE a :
                              a \in answers}
            /\ UNCHANGED <<question_votes, questions>>

\* What the vote statement writes: one row appended to the ledger of its
\* route, nothing in the other ledger and nothing in questions or answers.
VoteWrites(r) ==
    /\ IF OnQuestion(r.op)
       THEN /\ question_votes' = Append(question_votes, QuestionVoteRow(r))
            /\ UNCHANGED answer_votes
       ELSE /\ answer_votes' = Append(answer_votes, AnswerVoteRow(r))
            /\ UNCHANGED question_votes
    /\ UNCHANGED <<questions, answers>>

\* The statement ends: the inserted row is committed, the handler resumes
\* with the result: 404 when rowCount is 0, else 200 with rows[0].
VoteCommit(c) ==
    /\ conn[c].pc = "exec"
    /\ LET r == conn[c]
       IN  /\ VoteWrites(r)
           /\ res' = IF Cardinality(r.rows) = 0
                     THEN Reply(c, r.op, r.id, r.body, 404, VoteMessage(r.op, 404))
                     ELSE [op |-> r.op, id |-> r.id, body |-> r.body,
                           status |-> 200, message |-> VoteMessage(r.op, 200),
                           data |-> CHOOSE row \in r.rows : TRUE]
           /\ conn' = [conn EXCEPT ![c] = Idle]
    /\ UNCHANGED <<nextQuestionId, nextAnswerId, now>>

\* Mutant: a statement that fails while it runs leaves its inserted row.
VoteFail_partial(c) ==
    /\ conn[c] # Idle
    /\ Respond500(c)
    /\ IF conn[c].pc = "exec"
       THEN VoteWrites(conn[c])
       ELSE UNCHANGED <<questions, answers, question_votes, answer_votes>>
    /\ UNCHANGED <<nextQuestionId, nextAnswerId, now>>

\* connectionPool.query rejects (the database cannot be reached or the
\* statement is aborted): nothing is written and the catch answers 500.
VoteFail(c) ==
    /\ conn[c] # Idle
    /\ Respond500(c)
    /\ UNCHANGED <<questions, answers, question_votes, answer_votes,
                   nextQuestionId, nextAnswerId, now>>

\* ------------------------------------------------------------ item handlers
\* POST /questions: validateQuestion, then one insert.
PostQuestion(c, body) ==
    /\ Free(c)
    /\ LET v == validateQuestion(body) IN
         IF v.status = 400
         THEN /\ res' = Reply(c, "post_question", "", body, 400, v.message)
              /\ UNCHANGED <<questions, nextQuestionId, now>>
         ELSE /\ \E d \in Dates, ok \in BOOLEAN :
                    /\ now' = now + d
                    /\ IF ok
                       THEN LET newQuestion ==
                                    Spread(body, [created_at |-> now, updated_at |-> now + d])
                                row == [id |-> nextQuestionId,
                                        title |-> newQuestion.title.s,
                                        description |-> newQuestion.description.s,
                                        category |-> newQuestion.category.s,
                                        created_at |-> newQuestion.created_at,
                                        updated_at |-> newQuestion.updated_at]
                            IN  /\ questions' = questions \cup {row}
                                /\ nextQuestionId' = nextQuestionId + 1
                                /\ res' = [op |-> "post_question", id |-> "",
                                           body |-> body, status |-> 201,
                                           message |-> "Question created successfully.",
                                           data |-> row]
                       ELSE /\ UNCHANGED <<questions, nextQuestionId>>
                            /\ res' = Reply(c, "post_question", "", body, 500,
                                  "Server could not create question because database connection.")
    /\ UNCHANGED <<answers, question_votes, answer_votes, nextAnswerId, conn>>

\* POST /questions/:id/answers: validateAnswer, then one insert with the
\* path id as question_id.
PostAnswer(c, id, body) ==
    /\ Free(c)
    /\ LET v == validateAnswer(body) IN
         IF v.status = 400
         THEN /\ res' = Reply(c, "post_answer", id, body, 400, v.message)
              /\ UNCHANGED <<answers, nextAnswerId, now>>
         ELSE /\ \E d \in Dates, ok \in BOOLEAN :
                    /\ now' = now + d
                    /\ IF ok /\ PgInt(id).ok
                       THEN LET answer ==
                                    Spread(body, [created_at |-> now, updated_at |-> now + d])
                                row == [id |-> nextAnswerId, question_id |-> PgInt(id).val,
                                        content |-> answer.content.s,
                                        created_at |-> answer.created_at,
                                        updated_at |-> answer.updated_at]
                            IN  /\ answers' = answers \cup {row}
                                /\ nextAnswerId' = nextAnswerId + 1
                                /\ res' = [op |-> "post_answer", id |-> id,
                                           body |-> body, status |-> 201,
                                           message |-> "Answer created successfully.",
                                           data |-> row]
                       ELSE /\ UNCHANGED <<answers, nextAnswerId>>
                            /\ res' = Reply(c, "post_answer", id, body, 500,
                                  "Server could not create answer because database connection.")
    /\ UNCHANGED <<questions, question_votes, answer_votes, nextQuestionId, conn>>

\* `where (title = $1 or $1 is null or $1 = '')`: undefined is sent as
\* null.
Matches(column, param) ==
    \/ param.t = "undefined"
    \/ param.t = "string" /\ (param.s = column \/ param.s = "")

\* Mutant: the two filters are joined with `or`.
QuestionsQuery_or(title, category) ==
    {q \in questions : Matches(q.title, title) \/ Matches(q.category, category)}

\* `select * from questions where (title ...) and (category ...)`.
QuestionsQuery(title, category) ==
    {q \in questions : Matches(q.title, title) /\ Matches(q.category, category)}

\* req.query.title, req.query.category.
QueryParam(query, name) ==
    IF name \in DOMAIN query THEN Str(query[name]) ELSE Undefined

\* GET /questions: validateQuery, then one select.
GetQuestions(c, query) ==
    /\ Free(c)
    /\ LET v == validateQuery(query) IN
         IF v.status = 400
         THEN res' = Reply(c, "get_questions", "", query, 400, v.message)
         ELSE \E ok \in BOOLEAN :
                IF ok
                THEN LET rows == QuestionsQuery(QueryParam(query, "title"),
                                                QueryParam(query, "category"))
                     IN  res' = IF Cardinality(rows) = 0
                                THEN Reply(c, "get_questions", "", query, 404,
                                           "Question not found.")
                                ELSE [op |-> "get_questions", id |-> "", body |-> query,
                                      status |-> 200,
                                      message |-> "Successfully retrieved the list of questions.",
                                      data |-> rows]
                ELSE res' = Reply(c, "get_questions", "", query, 500,
                        "Server could not read question because database connection.")
    /\ UNCHANGED <<questions, answers, question_votes, answer_votes,
                   nextQuestionId, nextAnswerId, now, conn>>

\* GET /questions/:id: `select * from questions where id = $1`.
GetQuestion(c, id) ==
    /\ Free(c)
    /\ \E ok \in BOOLEAN :
         IF ok /\ PgInt(id).ok
         THEN LET rows == {q \in questions : q.id = PgInt(id).val}
              IN  res' = IF Cardinality(rows) = 0
                         THEN Reply(c, "get_question", id, <<>>, 404, "Question not found.")
                         ELSE [op |-> "get_question", id |-> id, body |-> <<>>,
                               status |-> 200,
                               message |-> "Successfully retrieved the list of questions.",
                               data |-> CHOOSE q \in rows : TRUE]
         ELSE res' = Reply(c, "get_question", id, <<>>, 500,
                 "Server could not read question because database connection.")
    /\ UNCHANGED <<questions, answers, question_votes, answer_votes,
                   nextQuestionId, nextAnswerId, now, conn>>

\* The row `update questions set title = $2, description = $3, category =
\* $4, updated_at = $5 where id = $1` leaves in place of q.
UpdatedQuestion(q, body, at) ==
    [q EXCEPT !.title = body.title.s, !.description = body.description.s,
              !.category = body.category.s, !.updated_at = at]

\* Mutant: the update also stamps created_at.
PutQuestion_created(c, id, body) ==
    /\ Free(c)
    /\ LET v == validateQuestion(body) IN
         IF v.status = 400
         THEN /\ res' = Reply(c, "put_question", id, body, 400, v.message)
              /\ UNCHANGED questions
         ELSE \E ok \in BOOLEAN :
                IF ok /\ PgInt(id).ok
                THEN LET hit == {q \in questions : q.id = PgInt(id).val}
                         new == {[UpdatedQuestion(q, body, now) EXCEPT !.created_at = now] :
                                    q \in hit}
                     IN  /\ questions' = (questions \ hit) \cup new
                         /\ res' = IF Cardinality(hit) = 0
                                   THEN Reply(c, "put_question", id, body, 404,
                                              "Question not found.")
                                   ELSE [op |-> "put_question", id |-> id, body |-> body,
                                         status |-> 200,
                                         message |-> "Successfully updated the question.",
                                         data |-> CHOOSE q \in new : TRUE]
                ELSE /\ UNCHANGED questions
                     /\ res' = Reply(c, "put_question", id, body, 500,
                           "Server could not update question because database connection.")
    /\ UNCHANGED <<answers, question_votes, answer_votes,
                   nextQuestionId, nextAnswerId, now, conn>>

\* PUT /questions/:id: validateQuestion, one `new Date()`, then one update.
PutQuestion(c, id, body) ==
    /\ Free(c)
    /\ LET v == validateQuestion(body) IN
         IF v.status = 400
         THEN /\ res' = Reply(c, "put_question", id, body, 400, v.message)
              /\ UNCHANGED questions
         ELSE \E ok \in BOOLEAN :
                IF ok /\ PgInt(id).ok
                THEN LET hit == {q \in questions : q.id = PgInt(id).val}
                         new == {UpdatedQuestion(q, body, now) : q \in hit}
                     IN  /\ questions' = (questions \ hit) \cup new
                         /\ res' = IF Cardinality(hit) = 0
                                   THEN Reply(c, "put_question", id, body, 404,
                                              "Question not found.")
                                   ELSE [op |-> "put_question", id |-> id, body |-> body,
                                         status |-> 200,
                                         message |-> "Successfully updated the question.",
                                         data |-> CHOOSE q \in new : TRUE]
                ELSE /\ UNCHANGED questions
                     /\ res' = Reply(c, "put_question", id, body, 500,
                           "Server could not update question because database connection.")
    /\ UNCHANGED <<answers, question_votes, answer_votes,
                   nextQuestionId, nextAnswerId, now, conn>>

\* Mutant: the delete also removes the votes of the question.
DeleteQuestion_cascade(c, id) ==
    /\ Free(c)
    /\ \E ok \in BOOLEAN :
         IF ok /\ PgInt(id).ok
         THEN LET gone == {q \in questions : q.id = PgInt(id).val} IN
                /\ questions' = questions \ gone
                /\ question_votes' = SelectSeq(question_votes,
                        LAMBDA v : v.question_id # PgInt(id).val)
                /\ res' = IF Cardinality(gone) = 0
                          THEN Reply(c, "delete_question", id, <<>>, 404, "Question not found.")
                          ELSE Reply(c, "delete_question", id, <<>>, 200,
                                     "Successfully deleted the question and answer.")
         ELSE /\ UNCHANGED <<questions, question_votes>>
              /\ res' = Reply(c, "delete_question", id, <<>>, 500,
                    "Server could not delete question because database connection.")
    /\ UNCHANGED <<answers, answer_votes, nextQuestionId, nextAnswerId, now, conn>>

\* Mutant: the delete answers 200 whatever its rowCount.
DeleteQuestion_always200(c, id) ==
    /\ Free(c)
    /\ \E ok \in BOOLEAN :
         IF ok /\ PgInt(id).ok
         THEN /\ questions' = {q \in questions : q.id # PgInt(id).val}
              /\ res' = Reply(c, "delete_question", id, <<>>, 200,
                              "Successfully deleted the question and answer.")
         ELSE /\ UNCHANGED questions
              /\ res' = Reply(c, "delete_question", id, <<>>, 500,
                    "Server could not delete question because database connection.")
    /\ UNCHANGED <<answers, question_votes, answer_votes,
                   nextQuestionId, nextAnswerId, now, conn>>

\* DELETE /questions/:id: `delete from questions where id = $1`.
DeleteQuestion(c, id) ==
    /\ Free(c)
    /\ \E ok \in BOOLEAN :
         IF ok /\ PgInt(id).ok
         THEN LET gone == {q \in questions : q.id = PgInt(id).val} IN
                /\ questions' = questions \ gone
                /\ res' = IF Cardinality(gone) = 0
                          THEN Reply(c, "delete_question", id, <<>>, 404, "Question not found.")
                          ELSE Reply(c, "delete_question", id, <<>>, 200,
                                     "Successfully deleted the question and answer.")
         ELSE /\ UNCHANGED questions
              /\ res' = Reply(c, "delete_question", id, <<>>, 500,
                    "Server could not delete question because database connection.")
    /\ UNCHANGED <<answers, question_votes, answer_votes,
                   nextQuestionId, nextAnswerId, now, conn>>

\* ---------------------------------------------------------- specifications
\* Vote rows written or about to be written.
VotesSent == Len(question_votes) + Len(answer_votes) + Cardinality(InFlight)

\* The serials stay within the ids of the run.  Requests the middleware
\* refuses are not limited: they send no statement.
QuestionRoom(body, ids) ==
    validateQuestion(body).status # 400 => nextQuestionId \in ids

AnswerRoom(body) ==
    validateAnswer(body).status # 400 => nextAnswerId \in AnswerIds

Next ==
    \/ \E c \in Clients, op \in VoteOps, id \in PathIds, body \in VoteBodies :
          /\ VoteMiddleware(op, body).status # 400 => VotesSent < MaxVotes
          /\ VoteReceive(c, op, id, body)
    \/ \E c \in Clients : VoteBegin(c)
    \/ \E c \in Clients : VoteCommit(c)
    \/ \E c \in Clients : VoteFail(c)
    \/ \E c \in Clients, body \in QuestionBodies :
          QuestionRoom(body, QuestionIds) /\ PostQuestion(c, body)
    \/ \E c \in Clients, id \in PathIds, body \in AnswerBodies :
          AnswerRoom(body) /\ PostAnswer(c, id, body)
    \/ \E c \in Clients, id \in PathIds : DeleteQuestion(c, id)

Spec == Init /\ [][Next]_vars

\* node-postgres settles the promise of every query it has sent: the
\* statement of a request in flight starts, and ends or fails.
Settles ==
    /\ WF_vars(\E c \in Clients : VoteBegin(c))
    /\ WF_vars(\E c \in Clients : VoteCommit(c) \/ VoteFail(c))

SpecLive == Init /\ [][Next]_vars /\ Settles

\* Concurrent casts: two connections, requests that pass the middleware.
NextConc ==
    \/ \E c \in Clients, op \in VoteOps, id \in ConcPathIds, body \in ValidVoteBodies :
          VotesSent < MaxVotes /\ VoteReceive(c, op, id, body)
    \/ \E c \in Clients : VoteBegin(c)
    \/ \E c \in Clients : VoteCommit(c)
    \/ \E c \in Clients : VoteFail(c)
    \/ \E c \in Clients, body \in QuestionBodies :
          QuestionRoom(body, QuestionIds) /\ PostQuestion(c, body)
    \/ \E c \in Clients, id \in ConcPathIds, body \in AnswerBodies :
          AnswerRoom(body) /\ PostAnswer(c, id, body)
    \/ \E c \in Clients, id \in ConcPathIds : DeleteQuestion(c, id)

SpecConc == InitConc /\ [][NextConc]_vars

\* The clock advances between and within the handlers.
NextClock ==
    \/ Tick
    \/ \E c \in Clients, op \in VoteOps, id \in ConcPathIds, body \in ValidVoteBodies :
          VotesSent < TimedVotes /\ VoteReceive(c, op, id, body)
    \/ \E c \in Clients : VoteBegin(c)
    \/ \E c \in Clients : VoteCommit(c)
    \/ \E c \in Clients : VoteFail(c)
    \/ \E c \in Clients, body \in QuestionBodies :
          QuestionRoom(body, QuestionIds) /\ PostQuestion(c, body)
    \/ \E c \in Clients, id \in ConcPathIds, body \in AnswerBodies :
          AnswerRoom(body) /\ PostAnswer(c, id, body)
    \/ \E c \in Clients, id \in ConcPathIds : DeleteQuestion(c, id)

SpecClock == InitClock /\ [][NextClock]_vars

\* The item routes: the clock advances by one instant during the run, two
\* questions, and one vote row.
InitItems == Start({"c1"}, MaxClock - 1)

NextItems ==
    \/ Tick
    \/ \E c \in Clients, body \in ItemQuestionBodies :
          QuestionRoom(body, ItemQuestionIds) /\ PostQuestion(c, body)
    \/ \E c \in Clients, id \in ItemPathIds, body \in ItemQuestionBodies :
          PutQuestion(c, id, body)
    \/ \E c \in Clients, query \in Queries : GetQuestions(c, query)
    \/ \E c \in Clients, id \in ItemPathIds : GetQuestion(c, id)
    \/ \E c \in Clients, id \in ItemPathIds : DeleteQuestion(c, id)
    \/ \E c \in Clients, id \in ConcPathIds, body \in ItemAnswerBodies :
          AnswerRoom(body) /\ PostAnswer(c, id, body)
    \/ \E c \in Clients, id \in ConcPathIds, body \in ValidVoteBodies :
          VotesSent < TimedVotes /\ VoteReceive(c, "q_up", id, body)
    \/ \E c \in Clients : VoteBegin(c)
    \/ \E c \in Clients : VoteCommit(c)

SpecItems == InitItems /\ [][NextItems]_vars

\* Casts on several targets: two questions, an answer with the id of the
\* first question, requests that pass the middlewares, one connection.
NextCross ==
    \/ \E c \in Clients, body \in QuestionBodies :
          /\ validateQuestion(body) = NextCalled
          /\ QuestionRoom(body, ItemQuestionIds)
          /\ PostQuestion(c, body)
    \/ \E c \in Clients, id \in ConcPathIds, body \in AnswerBodies :
          /\ validateAnswer(body) = NextCalled
          /\ AnswerRoom(body)
          /\ PostAnswer(c, id, body)
    \/ \E c \in Clients, op \in VoteOps, id \in ItemPathIds, body \in ValidVoteBodies :
          VotesSent < MaxVotes + 1 /\ VoteReceive(c, op, id, body)
    \/ \E c \in Clients : VoteBegin(c)
    \/ \E c \in Clients : VoteCommit(c)

SpecCross == Init /\ [][NextCross]_vars

\* Bodies that pass the middlewares, each as it is and with the added
\* fields.
ForgedVoteBodies == ValidVoteBodies \cup {WithForged(b) : b \in ValidVoteBodies}

ForgedQuestionBodies ==
    LET valid == {b \in QuestionBodies : validateQuestion(b) = NextCalled}
    IN  valid \cup {WithForged(b) : b \in valid}

ForgedAnswerBodies ==
    LET valid == {b \in AnswerBodies : validateAnswer(b) = NextCalled}
    IN  valid \cup {WithForged(b) : b \in valid}

\* Requests whose bodies carry fields of their own for the columns the
\* handlers fill: one connection, the clock within one instant.
NextBody ==
    \/ \E c \in Clients, body \in ForgedQuestionBodies :
          QuestionRoom(body, QuestionIds) /\ PostQuestion(c, body)
    \/ \E c \in Clients, id \in ConcPathIds, body \in ForgedAnswerBodies :
          AnswerRoom(body) /\ PostAnswer(c, id, body)
    \/ \E c \in Clients, op \in VoteOps, id \in ConcPathIds, body \in ForgedVoteBodies :
          /\ VoteMiddleware(op, body).status # 400 => VotesSent < MaxVotes
          /\ VoteReceive(c, op, id, body)
    \/ \E c \in Clients : VoteBegin(c)
    \/ \E c \in Clients : VoteCommit(c)

SpecBody == Init /\ [][NextBody]_vars

\* -------------------------------------------------------------- properties
\* The literal the documentation of each vote route asks for, and the
\* direction of the route.
Expected(op) == IF op \in {"q_up", "a_up"} THEN Str("1") ELSE Str("-1")
Direction(op) == IF op \in {"q_up", "a_up"} THEN 1 ELSE -1

\* This step sends a response other than the one sent last.  Responses of
\* different routes differ by their op; bodies are compared only between
\* responses of one route.
Responded == IF res'.op # res.op THEN TRUE ELSE res' # res

\* The last response answers a vote cast.
VoteReply == res.op \in VoteOps

\* The item a vote route addresses with path id `id` is stored.
TargetExists(op, id) ==
    /\ PgInt(id).ok
    /\ IF OnQuestion(op)
       THEN \E q \in questions : q.id = PgInt(id).val
       ELSE \E a \in answers : a.id = PgInt(id).val

\* The votes of direction v the ledger of route op holds for target n.
Tally(op, n, v) ==
    IF OnQuestion(op)
    THEN Cardinality({i \in DOMAIN question_votes :
            question_votes[i].question_id = n /\ question_votes[i].vote = v})
    ELSE Cardinality({i \in DOMAIN answer_votes :
            answer_votes[i].answer_id = n /\ answer_votes[i].vote = v})

\* The same count in the ledger a step leaves.
TallyAfter(op, n, v) ==
    IF OnQuestion(op)
    THEN Cardinality({i \in DOMAIN question_votes' :
            question_votes'[i].question_id = n /\ question_votes'[i].vote = v})
    ELSE Cardinality({i \in DOMAIN answer_votes' :
            answer_votes'[i].answer_id = n /\ answer_votes'[i].vote = v})

\* This step ends the statement of connection c and answers from its result.
CommitStep(c) == conn[c].pc = "exec" /\ conn'[c] = Idle /\ res'.status # 500

\* This step starts the statement of connection c.
BeginStep(c) == conn[c].pc = "query" /\ conn'[c].pc = "exec"

\* C1: a validated cast on an existing target whose statement succeeded is
\* answered 200 with the tally of the ledger including the cast itself
\* (N+1, M after an upvote, N, M+1 after a downvote; {1, 0} for the first
\* upvote on a question).  One connection, so the ledger of the state is
\* the ledger the cast left.
C1_TallyCorrect ==
    (VoteReply /\ res.status \in {200, 404} /\ TargetExists(res.op, res.id)) =>
        /\ res.status = 200
        /\ res.data.upvote = Tally(res.op, PgInt(res.id).val, 1)
        /\ res.data.downvote = Tally(res.op, PgInt(res.id).val, -1)

\* C2: under any interleaving of casts on two connections, the tally a
\* successful cast returns counts its own vote: the count of its own
\* direction is at least 1.
C2_OwnVoteIncluded ==
    (VoteReply /\ res.status = 200) =>
        (IF Direction(res.op) = 1 THEN res.data.upvote ELSE res.data.downvote) >= 1

\* C3: a validated cast whose statement succeeded is answered 404 exactly
\* when no item with the path id exists, and 200 on an existing item
\* whatever its vote history.
C3_NotFoundIffAbsent ==
    (VoteReply /\ res.status \in {200, 404}) =>
        (res.status = 404 <=> ~TargetExists(res.op, res.id))

\* C4 as stated: a cast against a target that does not exist is answered
\* 404 whether its direction is valid, invalid or missing (storage failures
\* set aside).
C4_MissingTargetAlways404 ==
    (VoteReply /\ ~TargetExists(res.op, res.id) /\ res.status # 500) =>
        res.status = 404

\* C4 amended: a cast against a target that does not exist is answered 400
\* when its direction is missing or not the literal of the endpoint, and
\* otherwise 404, or 500 when the statement fails.
C4_MissingTarget ==
    (VoteReply /\ ~TargetExists(res.op, res.id)) =>
        IF res.body.vote = Expected(res.op)
        THEN res.status \in {404, 500}
        ELSE res.status = 400

\* A cast with a wrong direction is answered 400 on a target that does not
\* exist and that an earlier valid cast was answered 404 for (its row is in
\* the ledger).
C4_Witness ==
    /\ VoteReply /\ PgInt(res.id).ok /\ ~TargetExists(res.op, res.id)
    /\ res.status = 400
    /\ Tally(res.op, PgInt(res.id).val, 1) + Tally(res.op, PgInt(res.id).val, -1) >= 1

\* C5: every row written through an upvote route has vote 1 and every row
\* written through a downvote route has vote -1; a request whose vote is
\* not the literal of its route is answered 400 and writes no row.
C5_EndpointDirectionBinding ==
    [][ /\ Len(question_votes') > Len(question_votes) =>
              /\ res'.op \in {"q_up", "q_down"}
              /\ question_votes'[Len(question_votes')].vote = Direction(res'.op)
        /\ Len(answer_votes') > Len(answer_votes) =>
              /\ res'.op \in {"a_up", "a_down"}
              /\ answer_votes'[Len(answer_votes')].vote = Direction(res'.op)
        /\ (res'.op \in VoteOps /\ res'.body.vote # Expected(res'.op)) =>
              /\ res'.status = 400
              /\ Responded => UNCHANGED <<question_votes, answer_votes>>
      ]_vars

\* The answer ledger holds an upvote and an upvote request carrying "-1"
\* has just been refused.
C5_Witness ==
    /\ \E i \in DOMAIN answer_votes : answer_votes[i].vote = 1
    /\ res.op = "a_up" /\ res.status = 400 /\ res.body.vote = Str("-1")

\* C6: every cast that passes validation and whose statement succeeds adds
\* exactly one row for its target to its ledger, nothing else adds or
\* removes a row, and the tally of a cast counts every row committed for
\* its target before its statement started.
C6_EveryVoteCounted ==
    [][ /\ \A c \in Clients : CommitStep(c) =>
              /\ Len(question_votes') + Len(answer_votes')
                    = Len(question_votes) + Len(answer_votes) + 1
              /\ TallyAfter(conn[c].op, PgInt(conn[c].id).val, Direction(conn[c].op))
                    = Tally(conn[c].op, PgInt(conn[c].id).val, Direction(conn[c].op)) + 1
              /\ res'.status = 200 => res'.data \in conn[c].rows
        /\ (\A c \in Clients : ~CommitStep(c)) =>
              UNCHANGED <<question_votes, answer_votes>>
        /\ \A c \in Clients : BeginStep(c) =>
              \A row \in conn'[c].rows :
                 /\ row.upvote = Tally(conn[c].op, PgInt(conn[c].id).val, 1)
                 /\ row.downvote = Tally(conn[c].op, PgInt(conn[c].id).val, -1)
      ]_vars

\* Two casts on question 1 are in the ledger and the later one was
\* answered with the tally of the one before it.
C6_Witness ==
    /\ Len(question_votes) = MaxVotes
    /\ \A i \in DOMAIN question_votes : question_votes[i].question_id = 1
    /\ res.op \in {"q_up", "q_down"} /\ res.status = 200
    /\ res.data.upvote + res.data.downvote = MaxVotes - 1

\* C7: a step of a vote cast (refused, sent, started, failed or answered)
\* leaves every row of questions and answers as it was: content fields,
\* created_at and updated_at.
C7_NonDestructiveVoting ==
    [][ (conn' # conn \/ (Responded /\ res'.op \in VoteOps)) =>
            UNCHANGED <<questions, answers>>
      ]_vars

\* A cast on a question written before the clock advanced has been
\* answered, and its row, written after the question, is in the ledger.
C7_Witness ==
    /\ res.op = "q_up" /\ res.status \in {200, 404}
    /\ \E q \in questions :
          /\ q.id = PgInt(res.id).val /\ q.updated_at < now
          /\ \E i \in DOMAIN question_votes :
                /\ question_votes[i].question_id = q.id
                /\ question_votes[i].created_at > q.updated_at

\* C8: a row of question_votes or answer_votes stays in its table with the
\* same id, target, vote and timestamps in every step.
C8_AppendOnlyLedger ==
    [][ /\ \A i \in DOMAIN question_votes :
              i \in DOMAIN question_votes' /\ question_votes'[i] = question_votes[i]
        /\ \A i \in DOMAIN answer_votes :
              i \in DOMAIN answer_votes' /\ answer_votes'[i] = answer_votes[i]
      ]_vars

\* The question was deleted while the ledger holds a vote on it.
C8_Witness ==
    /\ res.op = "delete_question" /\ res.status = 200
    /\ \E i \in DOMAIN question_votes : question_votes[i].question_id = PgInt(res.id).val

\* C9: every row of the two ledgers has vote 1 or -1.
C9_DirectionDomain ==
    /\ \A i \in DOMAIN question_votes : question_votes[i].vote \in {1, -1}
    /\ \A i \in DOMAIN answer_votes : answer_votes[i].vote \in {1, -1}

\* Both ledgers hold a row and a request carrying "2" has been refused.
C9_Witness ==
    /\ Len(question_votes) >= 1 /\ Len(answer_votes) >= 1
    /\ VoteReply /\ res.body.vote = Str("2") /\ res.status = 400

\* C10: a vote request whose body has no vote is answered 400 in the step
\* that receives it: no statement is sent on its connection and no table
\* changes.
C10_MissingField ==
    [][ (Responded /\ res'.op \in VoteOps /\ res'.body.vote = Undefined) =>
            /\ res'.status = 400
            /\ UNCHANGED <<questions, answers, question_votes, answer_votes,
                           nextQuestionId, nextAnswerId, conn>>
      ]_vars

\* A request without vote has been refused on a target that exists.
C10_Witness ==
    /\ VoteReply /\ res.body.vote = Undefined /\ res.status = 400
    /\ TargetExists(res.op, res.id)

C12_OrphanedVote ==
    [][ \A c \in Clients :
          /\ (BeginStep(c) /\ ~TargetExists(conn[c].op, conn[c].id)) =>
                conn'[c].rows = {}
          /\ (CommitStep(c) /\ conn[c].rows = {}) =>
                /\ res'.status = 404
                /\ Len(question_votes') + Len(answer_votes')
                      = Len(question_votes) + Len(answer_votes) + 1
                /\ TallyAfter(conn[c].op, PgInt(conn[c].id).val, Direction(conn[c].op))
                      = Tally(conn[c].op, PgInt(conn[c].id).val, Direction(conn[c].op)) + 1
      ]_vars

\* A cast on a target that is not stored has been answered 404 and its
\* row is in the ledger.
C12_Witness ==
    /\ VoteReply /\ res.status = 404
    /\ ~TargetExists(res.op, res.id)
    /\ Tally(res.op, PgInt(res.id).val, Direction(res.op)) >= 1

\* C13: a request leaves its connection either answered 500 with the four
\* tables as they were, or answered 200 or 404 with one row added to a
\* ledger; after the answer the connection carries no statement (no
\* retry).
C13_StorageErrorAtomic ==
    [][ \A c \in Clients : (conn[c] # Idle /\ conn'[c] # conn[c]) =>
          \/ /\ BeginStep(c)
             /\ UNCHANGED <<questions, answers, question_votes, answer_votes>>
             /\ ~Responded
          \/ /\ conn'[c] = Idle
             /\ res'.status = 500
             /\ UNCHANGED <<questions, answers, question_votes, answer_votes>>
          \/ /\ conn'[c] = Idle
             /\ res'.status \in {200, 404}
             /\ conn[c].pc = "exec"
             /\ Len(question_votes') + Len(answer_votes')
                   = Len(question_votes) + Len(answer_votes) + 1
             /\ UNCHANGED <<questions, answers>>
      ]_vars

\* A cast on an existing target that already has a vote has failed and
\* been answered 500.
C13_Witness ==
    /\ VoteReply /\ res.status = 500
    /\ TargetExists(res.op, res.id)
    /\ Tally(res.op, PgInt(res.id).val, 1) + Tally(res.op, PgInt(res.id).val, -1) >= 1

\* C14: every row of the two ledgers has updated_at equal to created_at,
\* however the clock advances while the handler builds the vote object.
C14_VoteTimestamps ==
    /\ \A i \in DOMAIN question_votes :
          question_votes[i].updated_at = question_votes[i].created_at
    /\ \A i \in DOMAIN answer_votes :
          answer_votes[i].updated_at = answer_votes[i].created_at

\* C15: an answer submission with content of 300 characters is not
\* refused by validateAnswer (it is answered 201 with the answer stored, or
\* 500 when the insert fails), and one with content of more than 300
\* characters is answered 400 and leaves the answers table as it was.
C15_ContentBoundary ==
    [][ (Responded /\ res'.op = "post_answer" /\ Truthy(res'.body.content)) =>
            IF Len(res'.body.content.s) > MaxContentLength
            THEN /\ res'.status = 400
                 /\ UNCHANGED <<answers, nextAnswerId>>
            ELSE /\ res'.status \in {201, 500}
                 /\ res'.status = 201 =>
                       \E a \in answers' \ answers : a.content = res'.body.content.s
      ]_vars

\* An answer of 300 characters is stored and one of 301 has been refused.
C15_Witness ==
    /\ \E a \in answers : Len(a.content) = MaxContentLength
    /\ res.op = "post_answer" /\ res.status = 400
    /\ Truthy(res.body.content)
    /\ Len(res.body.content.s) = MaxContentLength + 1

\* C16: a question create or update whose title, description or category
\* is empty or absent, and an answer create whose content is empty or
\* absent, is answered 400 and leaves every table and serial as it was;
\* with all required fields non-empty the request is not refused for them
\* and the row written carries the fields of the body.
C16_RequiredFields ==
    [][ Responded =>
          /\ res'.op \in {"post_question", "put_question"} =>
                IF \/ ~Truthy(res'.body.title)
                   \/ ~Truthy(res'.body.description)
                   \/ ~Truthy(res'.body.category)
                THEN /\ res'.status = 400
                     /\ UNCHANGED <<questions, answers, question_votes, answer_votes,
                                    nextQuestionId, nextAnswerId>>
                ELSE /\ res'.status # 400
                     /\ res'.status \in {200, 201} =>
                           /\ res'.data \in questions'
                           /\ res'.data.title = res'.body.title.s
                           /\ res'.data.description = res'.body.description.s
                           /\ res'.data.category = res'.body.category.s
          /\ res'.op = "post_answer" =>
                IF ~Truthy(res'.body.content)
                THEN /\ res'.status = 400
                     /\ UNCHANGED <<questions, answers, question_votes, answer_votes,
                                    nextQuestionId, nextAnswerId>>
                ELSE /\ res'.status = 400 => Len(res'.body.content.s) > MaxContentLength
                     /\ res'.status = 201 =>
                           /\ res'.data \in answers'
                           /\ res'.data.content = res'.body.content.s
      ]_vars

\* An update with an empty category has been refused on a stored question.
C16_Witness ==
    /\ res.op = "put_question" /\ res.status = 400
    /\ res.body.category = Str("")
    /\ \E q \in questions : q.id = PgInt(res.id).val

\* C17: a question-list request is answered 400 exactly when its query has
\* a parameter name other than title and category, whatever other names
\* and values it has.
C17_QueryAllowList ==
    res.op = "get_questions" =>
        (res.status = 400 <=>
            \E name \in DOMAIN res.body : name \notin {"title", "category"})

\* A query with title, category and one more name has been refused while
\* a question matching its title and category is stored.
C17_Witness ==
    /\ res.op = "get_questions" /\ res.status = 400
    /\ {"title", "category"} \subseteq DOMAIN res.body
    /\ \E q \in questions :
          q.title = res.body["title"] /\ q.category = res.body["category"]

\* C18: a cast on an existing target whose `vote` is the integer of its
\* route (1 for upvote, -1 for downvote) is answered 200 (storage failures
\* set aside).
C18_IntegerVoteAccepted ==
    (VoteReply /\ res.body.vote = Num(Direction(res.op))
        /\ TargetExists(res.op, res.id) /\ res.status # 500) =>
        res.status = 200

C20_QuestionListing ==
    [][ (Responded /\ res'.op = "get_questions") =>
          /\ UNCHANGED <<questions, answers, question_votes, answer_votes,
                         nextQuestionId, nextAnswerId>>
          /\ res'.status \in {200, 404} =>
                LET has(name) == name \in DOMAIN res'.body /\ res'.body[name] # ""
                    want == {q \in questions :
                               /\ has("title") => q.title = res'.body["title"]
                               /\ has("category") => q.category = res'.body["category"]}
                IN  IF want = {} THEN res'.status = 404
                    ELSE res'.status = 200 /\ res'.data = want
      ]_vars

\* Of two stored questions the list by title has returned one.
C20_Witness ==
    /\ res.op = "get_questions" /\ res.status = 200
    /\ "title" \in DOMAIN res.body
    /\ Cardinality(res.data) = 1
    /\ Cardinality(questions) = Cardinality(ItemQuestionIds)

C22_OneResponse ==
    /\ [][ /\ \A c \in Clients :
               /\ (conn[c] = Idle /\ conn'[c] # Idle) =>
                     /\ ~Responded
                     /\ conn'[c].pc = "query"
                     /\ VoteMiddleware(conn'[c].op, conn'[c].body) = NextCalled
               /\ BeginStep(c) => ~Responded
               /\ (conn[c] # Idle /\ conn'[c] = Idle) =>
                     /\ res'.op = conn[c].op /\ res'.id = conn[c].id
                     /\ res'.body = conn[c].body
                     /\ res'.status \in {200, 404, 500}
                     /\ res'.status \in {200, 404} => conn[c].pc = "exec"
           /\ (Responded /\ res'.op \in VoteOps) =>
                 IF res'.status = 400
                 THEN /\ UNCHANGED conn
                      /\ VoteMiddleware(res'.op, res'.body).status = 400
                 ELSE Cardinality({c \in Clients : conn[c] # Idle /\ conn'[c] = Idle}) = 1
         ]_vars
    /\ (InFlight # {}) ~> (InFlight = {})

\* A cast has been answered 200 and no statement is left running.
C22_Witness ==
    /\ VoteReply /\ res.status = 200
    /\ InFlight = {}
    /\ Len(question_votes) + Len(answer_votes) = MaxVotes

\* C23: the rows the statement of a cast on target A returns are rows of A
\* whose counts are the votes of A in the ledger of its route; the step
\* that ends the cast adds its row for A and leaves the count of every
\* other target of that ledger, and the whole other ledger, as they were:
\* votes on a question never count for an answer, the one with the same
\* id included, nor votes on an answer for a question.
C23_CrossTargetIsolation ==
    [][ \A c \in Clients :
          LET op == conn[c].op
              A == PgInt(conn[c].id).val
          IN  /\ BeginStep(c) =>
                    \A row \in conn'[c].rows :
                       /\ row.id = A
                       /\ row.upvote = Tally(op, A, 1)
                       /\ row.downvote = Tally(op, A, -1)
              /\ CommitStep(c) =>
                    /\ TallyAfter(op, A, 1) + TallyAfter(op, A, -1)
                          = Tally(op, A, 1) + Tally(op, A, -1) + 1
                    /\ \A id \in ItemPathIds, v \in {1, -1} :
                          PgInt(id).val # A =>
                             TallyAfter(op, PgInt(id).val, v) = Tally(op, PgInt(id).val, v)
                    /\ IF OnQuestion(op) THEN UNCHANGED answer_votes
                                          ELSE UNCHANGED question_votes
      ]_vars

\* A cast on question 1 has been answered 200 with a tally of one vote
\* while the ledgers hold three rows, one of them for another target.
C23_Witness ==
    /\ res.op \in {"q_up", "q_down"} /\ res.id = "1" /\ res.status = 200
    /\ res.data.upvote + res.data.downvote = 1
    /\ Len(question_votes) + Len(answer_votes) = MaxVotes + 1
    /\ \/ \E i \in DOMAIN answer_votes : answer_votes[i].answer_id = 1
       \/ \E i \in DOMAIN question_votes : question_votes[i].question_id # 1

\* C24: the row a vote cast, a question create or an answer create writes
\* and the response it gets are fixed by the path id, the validated fields
\* of the body (vote; title, description, category; content), the clock
\* and the tables: the target id is the path id, the timestamps are the
\* instant of the clock, the id is the one of the serial, whatever other
\* fields the body has.  Two requests that differ only in those other
\* fields so write the same row and get the same response.
C24_BodyCannotSteer ==
    [][ /\ \A c \in Clients : CommitStep(c) =>
              LET r == conn[c]
                  ledger == IF OnQuestion(r.op) THEN question_votes' ELSE answer_votes'
                  row == ledger[Len(ledger)]
              IN  /\ row.id = Len(ledger)
                  /\ row.vote = PgInt(r.body.vote.s).val
                  /\ IF OnQuestion(r.op)
                     THEN row.question_id = PgInt(r.id).val
                     ELSE row.answer_id = PgInt(r.id).val
                  /\ row.created_at = now /\ row.updated_at = now
                  /\ res'.status = IF r.rows = {} THEN 404 ELSE 200
                  /\ res'.message = VoteMessage(r.op, res'.status)
                  /\ res'.status = 200 => res'.data \in r.rows
        /\ (Responded /\ res'.op = "post_question" /\ res'.status = 201) =>
              /\ res'.data = [id |-> nextQuestionId,
                              title |-> res'.body.title.s,
                              description |-> res'.body.description.s,
                              category |-> res'.body.category.s,
                              created_at |-> now, updated_at |-> now]
              /\ questions' = questions \cup {res'.data}
        /\ (Responded /\ res'.op = "post_answer" /\ res'.status = 201) =>
              /\ res'.data = [id |-> nextAnswerId,
                              question_id |-> PgInt(res'.id).val,
                              content |-> res'.body.content.s,
                              created_at |-> now, updated_at |-> now]
              /\ answers' = answers \cup {res'.data}
      ]_vars

\* A question, an answer and a vote row are stored and the cast answered
\* last carried fields of its own for the timestamps and the target.
C24_Witness ==
    /\ VoteReply /\ res.status \in {200, 404}
    /\ {"created_at", "updated_at", "question_id"} \subseteq DOMAIN res.body
    /\ res.body.created_at # now
    /\ questions # {} /\ answers # {}
    /\ Len(question_votes) + Len(answer_votes) >= 1
====
